---- MODULE Spec2Model ----
(***************************************************************************)
(* The OAuth 2.0 token manager of cruds (src/src/cruds/auth.py, class     *)
(* OAuth2): token state kept encrypted at rest, the CSRF state of the     *)
(* Authorization-Code flow, and the grant requests to the token endpoint. *)
(***************************************************************************)
EXTENDS Integers, Sequences, FiniteSets, TLC

VARIABLES cfg, encrypted_state, pending_state, now, result, requests, origin,
          request_headers, callers, generator, factory

vars == <<cfg, encrypted_state, pending_state, now, result, requests, origin,
          request_headers, callers, generator, factory>>

(***************************************************************************)
(* Bounds of the model.                                                    *)
(***************************************************************************)
\* the clock int(time()) runs from 0 to MaxNow
MaxNow == 1

\* the most records the paged API holds
MaxRecords == 4

\* the most models the descriptor creates
MaxModels == 3

(***************************************************************************)
(* Values.                                                                 *)
(***************************************************************************)
\* Python's None, and the absence of a key in a dict
None == "None"

TOKEN_REFRESH_LEAD_TIME == 30

Byte == 0..255

RECURSIVE XorBits(_, _, _)
XorBits(a, b, n) ==
    IF n = 0 THEN 0
    ELSE ((a + b) % 2) + 2 * XorBits(a \div 2, b \div 2, n - 1)

\* byte ^ key_byte on 8-bit values, tabulated once
XorTable == [a \in Byte |-> [b \in Byte |-> XorBits(a, b, 8)]]

Xor(a, b) == XorTable[a][b]

RECURSIVE WeightedSum(_, _)
WeightedSum(s, i) ==
    IF i > Len(s) THEN 0 ELSE i * s[i] + WeightedSum(s, i + 1)

\* A 32-byte digest of a number: stands for the output of SHA-256.
Digest(n) == [i \in 1..32 |-> (n * (2 * i + 1) + 7 * i) % 251]

\* hashlib.sha256(s.encode()).digest(), s given by its bytes
Sha256(s) == Digest(WeightedSum(s, 1) + 3 * Len(s) + 11)

\* hashlib.pbkdf2_hmac("sha256", secret, salt, 100000)
Pbkdf2(secret, salt) ==
    Digest(5 * WeightedSum(secret, 1) + 13 * WeightedSum(salt, 1) + 101)

\* hmac.new(key, msg, hashlib.sha256).digest()
Hmac(key, msg) ==
    Digest(17 * WeightedSum(key, 1) + 3 * WeightedSum(msg, 1) + Len(msg) + 211)

\* bytes([v] * n)
Repeat(v, n) == [i \in 1..n |-> v]

\* the result of a call: a returned value or a raised exception
Return(v) == [kind |-> "return", value |-> v, msg |-> ""]

Raise(e, msg) == [kind |-> "raise", value |-> e, msg |-> msg]

Returned(r) == r.kind = "return"

(***************************************************************************)
(* json.dumps(state).encode("utf-8") and json.loads(data.decode("utf-8")) *)
(* on token-state dictionaries.  A dictionary is a function from its keys *)
(* to their values; the text is "{" key value ... "}" with one byte for   *)
(* every key and one byte for every value.                                *)
(***************************************************************************)
\* the dictionary {}
EmptyState == [f \in {} |-> 0]

FieldOrder ==
    <<"access_token", "token_type", "expires_in", "refresh_token", "scope",
      "created", "error_description", "error">>

Strings ==
    <<"TOK1", "TOK2", "Bearer", "mac", "R1", "R2", "api", "Bad Request",
      "invalid_grant">>

IntBase == 64

IndexOf(seq, v) == CHOOSE i \in 1..Len(seq) : seq[i] = v

\* the members that hold integers
IntFields == {"expires_in", "created"}

ValueByte(f, v) ==
    IF f \in IntFields THEN IntBase + v ELSE 9 + IndexOf(Strings, v)

ByteValue(b) ==
    IF b >= IntBase THEN b - IntBase ELSE Strings[b - 9]

IsValueByte(b) ==
    \/ b \in 10..(9 + Len(Strings))
    \/ b \in IntBase..127

RECURSIVE DumpFields(_, _)
DumpFields(state, i) ==
    IF i > Len(FieldOrder) THEN << >>
    ELSE IF FieldOrder[i] \in DOMAIN state
         THEN <<i, ValueByte(FieldOrder[i], state[FieldOrder[i]])>>
              \o DumpFields(state, i + 1)
         ELSE DumpFields(state, i + 1)

JsonDumps(state) == <<123>> \o DumpFields(state, 1) \o <<125>>

\* the keys of the text, the last occurrence of a key giving its value
LoadFields(body) ==
    LET n == Len(body) \div 2
        keys == {FieldOrder[body[2 * k - 1]] : k \in 1..n}
        last(f) == CHOOSE k \in 1..n :
                      /\ FieldOrder[body[2 * k - 1]] = f
                      /\ \A j \in (k + 1)..n : FieldOrder[body[2 * j - 1]] # f
    IN  [f \in keys |-> ByteValue(body[2 * last(f)])]

JsonLoads(data) ==
    LET n == Len(data)
        body == SubSeq(data, 2, n - 1)
    IN  IF /\ n >= 2
           /\ data[1] = 123
           /\ data[n] = 125
           /\ Len(body) % 2 = 0
           /\ \A k \in 1..(Len(body) \div 2) :
                 /\ body[2 * k - 1] \in 1..Len(FieldOrder)
                 /\ IsValueByte(body[2 * k])
        THEN Return(LoadFields(body))
        ELSE Raise("JSONDecodeError", "")

\* str.encode() of the configured secrets
Encode(s) ==
    CASE s = "ABC" -> <<65, 66, 67>>
      [] s = "key" -> <<107, 101, 121>>
      [] s = "XYZ" -> <<88, 89, 90>>
      [] s = "other" -> <<111, 116, 104, 101, 114>>
      [] OTHER -> << >>

(***************************************************************************)
(* Symmetric encryption with integrity protection.                        *)
(***************************************************************************)
_generate_encryption_key(self, salt) ==
    Pbkdf2(Encode(self.client_secret), salt)

_encrypt_with_key(data, key, iv) ==
    LET padding_length == 16 - (Len(data) % 16)
        padded_data == data \o Repeat(padding_length, padding_length)
        encrypted == [i \in 1..Len(padded_data) |->
                         Xor(padded_data[i], key[((i - 1) % Len(key)) + 1])]
        hmac_digest == Hmac(key, iv \o encrypted)
    IN  iv \o encrypted \o hmac_digest

\* a decryption that returns the plaintext with its padding
_decrypt_with_key_keeping_pad(encrypted_data, key) ==
    LET n == Len(encrypted_data)
        iv == SubSeq(encrypted_data, 1, 16)
        hmac_digest == SubSeq(encrypted_data, n - 31, n)
        encrypted == SubSeq(encrypted_data, 17, n - 32)
        decrypted == [i \in 1..Len(encrypted) |->
                         Xor(encrypted[i], key[((i - 1) % Len(key)) + 1])]
    IN  IF n < 48 THEN Raise("ValueError", "Encrypted data too short")
        ELSE IF hmac_digest # Hmac(key, iv \o encrypted)
             THEN Raise("ValueError", "HMAC verification failed")
        ELSE Return(decrypted)

_decrypt_with_key(encrypted_data, key) ==
    LET n == Len(encrypted_data)
        iv == SubSeq(encrypted_data, 1, 16)
        hmac_digest == SubSeq(encrypted_data, n - 31, n)
        encrypted == SubSeq(encrypted_data, 17, n - 32)
        expected_hmac == Hmac(key, iv \o encrypted)
        decrypted == [i \in 1..Len(encrypted) |->
                         Xor(encrypted[i], key[((i - 1) % Len(key)) + 1])]
        padding_length == decrypted[Len(decrypted)]
        keep == IF padding_length > Len(decrypted) THEN 0
                ELSE Len(decrypted) - padding_length
    IN  IF n < 48 THEN Raise("ValueError", "Encrypted data too short")
        ELSE IF hmac_digest # expected_hmac
             THEN Raise("ValueError", "HMAC verification failed")
        ELSE IF Len(decrypted) = 0
             THEN Raise("IndexError", "bytearray index out of range")
        ELSE IF padding_length > 16 \/ padding_length = 0
             THEN Raise("ValueError", "Invalid padding")
        ELSE Return(SubSeq(decrypted, 1, keep))

(***************************************************************************)
(* The token state store: the _state property over _encrypted_state.      *)
(***************************************************************************)
_initialize_encryption(encryption_key) ==
    IF encryption_key # None /\ encryption_key # "" THEN encryption_key
    ELSE None

\* a store that keeps to the one constant salt
SealBytes_constant_salt(self, state_bytes, iv, salt) ==
    IF self.encryption_key # None
    THEN _encrypt_with_key(state_bytes,
                           Sha256(Encode(self.encryption_key)), iv)
    ELSE <<99, 114, 117, 100, 115, 95, 111, 97, 117, 116, 104, 95, 115, 97,
           108, 116>>
         \o _encrypt_with_key(
                state_bytes,
                _generate_encryption_key(
                    self,
                    <<99, 114, 117, 100, 115, 95, 111, 97, 117, 116, 104, 95,
                      115, 97, 108, 116>>),
                iv)

\* the buffer written for the plaintext state_bytes
SealBytes(self, state_bytes, iv, salt) ==
    IF self.encryption_key # None
    THEN _encrypt_with_key(state_bytes,
                           Sha256(Encode(self.encryption_key)), iv)
    ELSE salt \o _encrypt_with_key(
             state_bytes, _generate_encryption_key(self, salt), iv)

_encrypt_state(self, state, iv, salt) ==
    IF state = EmptyState THEN << >>
    ELSE SealBytes(self, JsonDumps(state), iv, salt)

\* b"cruds_oauth_salt"
old_salt ==
    <<99, 114, 117, 100, 115, 95, 111, 97, 117, 116, 104, 95, 115, 97, 108,
      116>>

\* json.loads(decrypted_data.decode("utf-8")) of a decryption that succeeded
LoadDecrypted(r) == IF Returned(r) THEN JsonLoads(r.value) ELSE r

\* a _decrypt_state that knows the salt-prefixed layout only
_decrypt_state_prefixed_only(self, encrypted_data) ==
    LET n == Len(encrypted_data)
        fixed == LoadDecrypted(_decrypt_with_key(
                     encrypted_data, Sha256(Encode(self.encryption_key))))
        prefixed == IF n >= 16
                    THEN LoadDecrypted(_decrypt_with_key(
                             SubSeq(encrypted_data, 17, n),
                             _generate_encryption_key(
                                 self, SubSeq(encrypted_data, 1, 16))))
                    ELSE Raise("ValueError", "Encrypted data too short")
        outcome == IF self.encryption_key # None THEN fixed ELSE prefixed
    IN  IF n = 0 THEN EmptyState
        ELSE IF Returned(outcome) THEN outcome.value
        ELSE EmptyState

\* a _decrypt_state without its outer try/except
_decrypt_state_unguarded(self, encrypted_data) ==
    LET n == Len(encrypted_data)
        fixed == LoadDecrypted(_decrypt_with_key(
                     encrypted_data, Sha256(Encode(self.encryption_key))))
        legacy == LoadDecrypted(_decrypt_with_key(
                      encrypted_data,
                      _generate_encryption_key(self, old_salt)))
        prefixed == IF n >= 16
                    THEN LoadDecrypted(_decrypt_with_key(
                             SubSeq(encrypted_data, 17, n),
                             _generate_encryption_key(
                                 self, SubSeq(encrypted_data, 1, 16))))
                    ELSE Raise("ValueError", "Encrypted data too short")
        outcome == IF self.encryption_key # None THEN fixed
                   ELSE IF Returned(legacy) THEN legacy
                   ELSE prefixed
    IN  IF n = 0 THEN EmptyState
        ELSE IF Returned(outcome) THEN outcome.value
        ELSE outcome

_decrypt_state(self, encrypted_data) ==
    LET n == Len(encrypted_data)
        fixed == LoadDecrypted(_decrypt_with_key(
                     encrypted_data, Sha256(Encode(self.encryption_key))))
        legacy == LoadDecrypted(_decrypt_with_key(
                      encrypted_data,
                      _generate_encryption_key(self, old_salt)))
        salt == SubSeq(encrypted_data, 1, 16)
        actual_encrypted_data == SubSeq(encrypted_data, 17, n)
        prefixed == IF n >= 16
                    THEN LoadDecrypted(_decrypt_with_key(
                             actual_encrypted_data,
                             _generate_encryption_key(self, salt)))
                    ELSE Raise("ValueError", "Encrypted data too short")
        outcome == IF self.encryption_key # None THEN fixed
                   ELSE IF Returned(legacy) THEN legacy
                   ELSE prefixed
    IN  IF n = 0 THEN EmptyState
        ELSE IF Returned(outcome) THEN outcome.value
        ELSE EmptyState

(***************************************************************************)
(* Configuration of the manager (the arguments of OAuth2.__init__).       *)
(***************************************************************************)
\* authorization_details: None, a list of objects, or a string
NoDetails == [type |-> "None"]

AsList(items) == [type |-> "list", items |-> items]

AsStr(text) == [type |-> "str", text |-> text]

Config(username, password, details, key, auth_url, redirect) ==
    [url |-> "https://localhost/token",
     client_id |-> "123",
     client_secret |-> "ABC",
     scope |-> "api",
     authorization_details |-> details,
     username |-> username,
     password |-> password,
     encryption_key |-> _initialize_encryption(key),
     authorization_url |-> auth_url,
     redirect_uri |-> redirect,
     state_length |-> 32]

Configs ==
    {Config(None, None, NoDetails, None, "https://localhost/auth",
            "https://app/cb"),
     Config("john", "pw", AsList(<<"payment">>), "key",
            "https://localhost/auth", "https://app/cb"),
     Config("john", None, AsStr("raw"), None, None, "https://app/cb"),
     Config(None, "pw", AsList(<< >>), "key", "https://localhost/auth", None)}

(***************************************************************************)
(* Responses of the token endpoint.                                        *)
(***************************************************************************)
\* a JSON object member, and its absence
Member(k, v) == k :> v

Absent == [f \in {} |-> 0]

\* a body that is not JSON
NotJson == [text |-> "<html>"]

Bearer == Member("token_type", "Bearer")

WellFormedBodies ==
    {Member("access_token", "TOK1") @@ Bearer @@ ex @@ rt :
        ex \in {Absent, Member("expires_in", 30), Member("expires_in", 31)},
        rt \in {Absent, Member("refresh_token", "R1")}}
    \cup {Member("access_token", "TOK1") @@ Bearer @@ Member("expires_in", 25)
              @@ Member("refresh_token", "R2"),
          Member("access_token", "TOK2") @@ Bearer @@ Member("expires_in", 31)
              @@ Member("refresh_token", "R2"),
          Member("access_token", "TOK2") @@ Bearer @@ Member("expires_in", 60)
              @@ Member("scope", "api") @@ Member("created", 9)}

MalformedBodies ==
    {Bearer @@ Member("expires_in", 60),
     Member("access_token", "TOK1") @@ Member("token_type", "mac"),
     Member("access_token", "TOK2") @@ Member("expires_in", 60)
         @@ Member("refresh_token", "R1"),
     Absent}

TokenBodies == WellFormedBodies \cup MalformedBodies

Response(status, body) == [status |-> status, body |-> body]

Responses ==
    {Response(200, b) : b \in TokenBodies}
    \cup {Response(s, [error_description |-> "Bad Request"]) :
             s \in {299, 399, 400, 498, 499, 500}}
    \cup {Response(298, Member("access_token", "TOK1") @@ Bearer),
          Response(299, Member("access_token", "TOK1") @@ Bearer),
          Response(199, [error_description |-> "Bad Request"]),
          Response(400, [error |-> "invalid_grant"]),
          Response(400, NotJson), Response(500, NotJson),
          Response(200, NotJson)}

\* response.json()
Json(response) ==
    IF response.body = NotJson THEN Raise("JSONDecodeError", "")
    ELSE Return(response.body)

\* secrets.token_bytes(16): the values the random source may return
TokenBytes16 == {Repeat(1, 16), Repeat(2, 16)}

\* secrets.token_urlsafe(state_length)
TokenUrlsafe == {"S1", "S2"}

(***************************************************************************)
(* Dictionaries.                                                           *)
(***************************************************************************)
\* d[k] = v
DictSet(d, k, v) == [f \in DOMAIN d \cup {k} |-> IF f = k THEN v ELSE d[f]]

\* d.get(k, default)
DictGet(d, k, default) == IF k \in DOMAIN d THEN d[k] ELSE default

\* truth value of a string or None
Truthy(v) == v # None /\ v # ""

(***************************************************************************)
(* The _state property.  The manager only ever stores the encryption of a *)
(* stamped token response, so the encryptions and their decryptions are   *)
(* tabulated once, from _encrypt_state and _decrypt_state.                *)
(***************************************************************************)
\* what the store reads of the manager: its key material
KeyMaterial(self) ==
    [encryption_key |-> self.encryption_key,
     client_secret |-> self.client_secret]

\* the JSON objects that the token endpoint may answer with
JsonBodies == {r.body : r \in Responses} \ {NotJson}

\* the dictionaries that access_token["created"] = int(time()) can produce
StampedStates == {DictSet(b, "created", t) : b \in JsonBodies, t \in 0..MaxNow}

EncryptTable ==
    [k \in {KeyMaterial(c) : c \in Configs} |->
        [state \in StampedStates |->
            [iv \in TokenBytes16 |->
                [salt \in TokenBytes16 \cup {Repeat(0, 16)} |->
                    _encrypt_state(k, state, iv, salt)]]]]

DecryptTable ==
    [k \in {KeyMaterial(c) : c \in Configs} |->
        [blob \in {<< >>} \cup
                 {EncryptTable[k][state][iv][salt] :
                     state \in StampedStates, iv \in TokenBytes16,
                     salt \in TokenBytes16} |->
            _decrypt_state(k, blob)]]

\* the setter of _state: the blob it stores
Encrypted(state, iv, salt) == EncryptTable[KeyMaterial(cfg)][state][iv][salt]

\* the salt that _encrypt_state draws: none under a fixed key
SaltDraws ==
    IF cfg.encryption_key # None THEN {Repeat(0, 16)} ELSE TokenBytes16

\* the getter of _state, on a stored blob
Decrypted(blob) == DecryptTable[KeyMaterial(cfg)][blob]

_state == Decrypted(encrypted_state)

(***************************************************************************)
(* The token manager.                                                      *)
(***************************************************************************)
\* what the last call did: the operation and what it returned or raised
Call(op, outcome) == [op |-> op, outcome |-> outcome]

\* a call observed with its arguments and the pending state it found
CallOf(op, args, outcome) == [op |-> op, args |-> args, outcome |-> outcome]

\* is_valid with >= in place of > in the expiry rule
is_valid_inclusive(blob, t) ==
    LET state == Decrypted(blob)
    IN  IF state = EmptyState THEN Return(FALSE)
        ELSE IF \/ "access_token" \notin DOMAIN state
                \/ DictGet(state, "token_type", "") # "Bearer"
             THEN Raise("RuntimeError",
                        "Auth state is missing critical information")
        ELSE IF "expires_in" \notin DOMAIN state THEN Return(TRUE)
        ELSE IF "created" \notin DOMAIN state THEN Raise("KeyError", "created")
        ELSE Return(state["created"] + state["expires_in"]
                        >= t + TOKEN_REFRESH_LEAD_TIME)

\* is_valid that reports a malformed state as not valid
is_valid_lenient(blob, t) ==
    LET state == Decrypted(blob)
    IN  IF state = EmptyState THEN Return(FALSE)
        ELSE IF \/ "access_token" \notin DOMAIN state
                \/ DictGet(state, "token_type", "") # "Bearer"
             THEN Return(FALSE)
        ELSE IF "expires_in" \notin DOMAIN state THEN Return(TRUE)
        ELSE IF "created" \notin DOMAIN state THEN Raise("KeyError", "created")
        ELSE Return(state["created"] + state["expires_in"]
                        > t + TOKEN_REFRESH_LEAD_TIME)

is_valid(blob, t) ==
    LET state == Decrypted(blob)
    IN  IF state = EmptyState THEN Return(FALSE)
        ELSE IF \/ "access_token" \notin DOMAIN state
                \/ DictGet(state, "token_type", "") # "Bearer"
             THEN Raise("RuntimeError",
                        "Auth state is missing critical information")
        ELSE IF "expires_in" \notin DOMAIN state THEN Return(TRUE)
        ELSE IF "created" \notin DOMAIN state THEN Raise("KeyError", "created")
        ELSE Return(state["created"] + state["expires_in"]
                        > t + TOKEN_REFRESH_LEAD_TIME)

_handle_http_response(response) ==
    IF 400 <= response.status /\ response.status < 499
    THEN LET body == Json(response)
         IN  IF Returned(body)
             THEN Raise("OAuthAccessTokenError",
                        DictGet(body.value, "error_description", "Unknown"))
             ELSE body
    ELSE IF ~(200 <= response.status /\ response.status < 299)
         THEN Raise("HTTPError", "Error with status code")
    ELSE Return(None)

\* details attached only when they are truthy
_add_authorization_details_truthy(params) ==
    IF cfg.authorization_details.type = "list"
    THEN IF cfg.authorization_details.items = << >> THEN params
         ELSE DictSet(params, "authorization_details",
                      [json |-> cfg.authorization_details.items])
    ELSE IF cfg.authorization_details.type # "None"
         THEN DictSet(params, "authorization_details",
                      cfg.authorization_details.text)
    ELSE params

_add_authorization_details(params) ==
    IF cfg.authorization_details.type = "list"
    THEN DictSet(params, "authorization_details",
                 [json |-> cfg.authorization_details.items])
    ELSE IF cfg.authorization_details.type # "None"
         THEN DictSet(params, "authorization_details",
                      cfg.authorization_details.text)
    ELSE params

\* the POST that _make_oauth_request sends
Request(fields, use_auth) ==
    [url |-> cfg.url,
     fields |-> fields,
     basic_auth |-> IF use_auth THEN <<cfg.client_id, cfg.client_secret>>
                    ELSE << >>,
     redirect |-> FALSE]

\* a request helper that parses the body whatever the status
_make_oauth_request_unchecked(response) == Json(response)

\* what _make_oauth_request makes of the response to its POST
_make_oauth_request(response) ==
    LET handled == _handle_http_response(response)
    IN  IF Returned(handled) THEN Json(response) ELSE handled

\* refresh fields that also carry the authorization details
RefreshFields_detailed(refresh_token) ==
    _add_authorization_details(
        [grant_type |-> "refresh_token", refresh_token |-> refresh_token])

\* a refresh that falls back to a client_credentials grant
RefreshFields_client_credentials(refresh_token) ==
    [grant_type |-> "client_credentials", scope |-> cfg.scope]

\* the grant that access_token() requests for the decrypted state
RefreshFields(refresh_token) ==
    [grant_type |-> "refresh_token", refresh_token |-> refresh_token]

\* fresh fields with the password grant chosen on a username or a password
FreshFields_either ==
    LET fields == [grant_type |-> "client_credentials", scope |-> cfg.scope]
        granted == IF cfg.username # None \/ cfg.password # None
                   THEN [grant_type |-> "password", scope |-> cfg.scope,
                         username |-> cfg.username, password |-> cfg.password]
                   ELSE fields
    IN  _add_authorization_details(granted)

\* fresh fields that never switch to the password grant
FreshFields_client_only ==
    _add_authorization_details(
        [grant_type |-> "client_credentials", scope |-> cfg.scope])

FreshFields ==
    LET fields == [grant_type |-> "client_credentials", scope |-> cfg.scope]
        granted == IF cfg.username # None /\ cfg.password # None
                   THEN [grant_type |-> "password", scope |-> cfg.scope,
                         username |-> cfg.username, password |-> cfg.password]
                   ELSE fields
    IN  _add_authorization_details(granted)

\* the request headers while no client has been constructed, and the headers
\* of a request that was not sent
Unset == [h \in {"unset"} |-> << >>]

\* no paging generator has been created
NotCalled == [pc |-> "none"]

\* the ModelFactory descriptor before any access: it has no model attribute
\* and has created none
NoModel == [created |-> 0]

\* the threads that may call access_token() on the one instance
Callers == {1, 2}

\* a caller that has not entered access_token()
Idle ==
    [pc |-> "idle", request |-> Absent, reply |-> Absent, written |-> << >>,
     order |-> 0, outcome |-> Return(None)]

Init ==
    /\ cfg \in Configs
    /\ encrypted_state = << >>
    /\ pending_state = None
    /\ now = 0
    /\ result = Call("__init__", Return(None))
    /\ requests = << >>
    /\ origin = None
    /\ request_headers = Unset
    /\ callers = [t \in Callers |-> Idle]
    /\ generator = NotCalled
    /\ factory = NoModel

\* the clock advances between calls
Tick ==
    /\ now < MaxNow
    /\ now' = now + 1
    /\ result' = Call("time", Return(None))
    /\ requests' = << >>
    /\ UNCHANGED <<request_headers, callers, generator, factory>>
    /\ UNCHANGED <<cfg, encrypted_state, pending_state, origin>>

\* a call of the public is_valid()
is_valid_call ==
    /\ result' = Call("is_valid", is_valid(encrypted_state, now))
    /\ requests' = << >>
    /\ UNCHANGED <<request_headers, callers, generator, factory>>
    /\ UNCHANGED <<cfg, encrypted_state, pending_state, now, origin>>

\* a manager that never uses the cached token
UseCached_never(valid) == FALSE

\* if self.is_valid(): the cached token is used
UseCached(valid) == Returned(valid) /\ valid.value

\* the committed token returned without the validity re-check
TokenOrEmpty_unchecked(blob) ==
    Return(DictGet(Decrypted(blob), "access_token", ""))

\* return self._state["access_token"] if self.is_valid() else ""
TokenOrEmpty(blob) ==
    LET recheck == is_valid(blob, now)
    IN  IF ~Returned(recheck) THEN recheck
        ELSE IF recheck.value THEN Return(Decrypted(blob)["access_token"])
        ELSE Return("")

\* a commit that updates the previous state instead of replacing it
Commit_merging(reply, iv, salt) ==
    Encrypted(DictSet(reply, "created", now) @@ _state, iv, salt)

\* a commit stamped with the clock at construction instead of at receipt
Commit_at_start(reply, iv, salt) ==
    Encrypted(DictSet(reply, "created", 0), iv, salt)

\* _state = access_token after access_token["created"] = int(time())
Commit(reply, iv, salt) == Encrypted(DictSet(reply, "created", now), iv, salt)

access_token ==
    LET state == _state
        valid == is_valid(encrypted_state, now)
        refresh_token == DictGet(state, "refresh_token", None)
        refreshing == Truthy(refresh_token)
        fields == IF refreshing THEN RefreshFields(refresh_token)
                  ELSE FreshFields
    IN  \/ /\ ~Returned(valid)
           /\ result' = Call("access_token", valid)
           /\ requests' = << >>
           /\ UNCHANGED <<request_headers, callers, generator, factory>>
           /\ UNCHANGED <<cfg, encrypted_state, pending_state, now, origin>>
        \/ /\ Returned(valid) /\ UseCached(valid)
           /\ result' = Call("access_token", Return(state["access_token"]))
           /\ requests' = << >>
           /\ UNCHANGED <<request_headers, callers, generator, factory>>
           /\ UNCHANGED <<cfg, encrypted_state, pending_state, now, origin>>
        \/ /\ Returned(valid) /\ ~UseCached(valid)
           /\ \E response \in Responses :
                LET reply == _make_oauth_request(response)
                IN  /\ requests' = <<[request |-> Request(fields, ~refreshing),
                                      response |-> response]>>
                    /\ IF Returned(reply)
                       THEN \E iv \in TokenBytes16, salt \in SaltDraws :
                              LET blob == Commit(reply.value, iv, salt)
                              IN  /\ encrypted_state' = blob
                                  /\ origin' = IF refreshing THEN origin
                                               ELSE fields["grant_type"]
                                  /\ result' = Call("access_token",
                                                    TokenOrEmpty(blob))
                       ELSE /\ result' = Call("access_token", reply)
                            /\ UNCHANGED <<encrypted_state, origin>>
                    /\ UNCHANGED <<request_headers, callers, generator, factory>>
                    /\ UNCHANGED <<cfg, pending_state, now>>

\* secrets.token_urlsafe(self.state_length)
_generate_state_parameter == TokenUrlsafe

\* a validation that leaves the matched pending state in place
_validate_state_parameter_reusable(received_state) ==
    [ok |-> Truthy(pending_state) /\ received_state = pending_state,
     pending |-> pending_state]

\* a validation that drops the pending state on a mismatch
_validate_state_parameter_consuming(received_state) ==
    IF ~Truthy(pending_state)
    THEN [ok |-> FALSE, pending |-> pending_state]
    ELSE [ok |-> received_state = pending_state, pending |-> None]

\* a validation that accepts any value when nothing is pending
_validate_state_parameter_open(received_state) ==
    IF ~Truthy(pending_state)
    THEN [ok |-> TRUE, pending |-> pending_state]
    ELSE IF received_state # pending_state
         THEN [ok |-> FALSE, pending |-> pending_state]
    ELSE [ok |-> TRUE, pending |-> None]

\* the value returned and the pending state left behind
_validate_state_parameter(received_state) ==
    IF ~Truthy(pending_state)
    THEN [ok |-> FALSE, pending |-> pending_state]
    ELSE IF received_state # pending_state
         THEN [ok |-> FALSE, pending |-> pending_state]
    ELSE [ok |-> TRUE, pending |-> None]

\* a pending state that is kept once it is set
NewPending_first(state) ==
    IF Truthy(pending_state) THEN pending_state ELSE state

\* self._pending_state = state
NewPending(state) == state

\* the additional_params a caller passes, None included
AdditionalParams == {Absent, [prompt |-> "login", state |-> "X"]}

\* a flow that wants only one of the two settings
NotConfigured_both ==
    ~Truthy(cfg.authorization_url) /\ ~Truthy(cfg.redirect_uri)

\* if not self.authorization_url or not self.redirect_uri
NotConfigured ==
    ~Truthy(cfg.authorization_url) \/ ~Truthy(cfg.redirect_uri)

get_authorization_url ==
    \E additional_params \in AdditionalParams :
        IF NotConfigured
        THEN /\ result' = Call("get_authorization_url",
                    Raise("RuntimeError",
                          "Authorization Code flow requires both authorization_url and redirect_uri to be configured"))
             /\ requests' = << >>
             /\ UNCHANGED <<request_headers, callers, generator, factory>>
             /\ UNCHANGED <<cfg, encrypted_state, pending_state, now, origin>>
        ELSE \E state \in _generate_state_parameter :
               LET params == _add_authorization_details(
                                 [response_type |-> "code",
                                  client_id |-> cfg.client_id,
                                  redirect_uri |-> cfg.redirect_uri,
                                  scope |-> cfg.scope,
                                  state |-> state])
                   query == additional_params @@ params
               IN  /\ pending_state' = NewPending(state)
                   /\ result' = CallOf("get_authorization_url",
                          [additional_params |-> additional_params,
                           pending_before |-> pending_state],
                          Return([endpoint |-> cfg.authorization_url,
                                  query |-> query]))
                   /\ requests' = << >>
                   /\ UNCHANGED <<request_headers, callers, generator, factory>>
                   /\ UNCHANGED <<cfg, encrypted_state, now, origin>>

\* an exchange that insists on an access_token in the response
ExchangedToken_strict(reply) ==
    IF "access_token" \in DOMAIN reply THEN Return(reply["access_token"])
    ELSE Raise("RuntimeError", "Auth state is missing critical information")

\* return access_token.get("access_token", "")
ExchangedToken(reply) == Return(DictGet(reply, "access_token", ""))

\* the authorization codes and state values a caller may present
Codes == {"CODE"}

ReceivedStates == TokenUrlsafe \cup {"X"}

\* a pending state put back when the token request fails
Pending_restored(validated, reply) ==
    IF Returned(reply) THEN validated.pending ELSE pending_state

\* the pending state once the token request is answered: the validation
\* consumed it before the request went out
Pending(validated, reply) == validated.pending

exchange_code_for_token ==
    \E authorization_code \in Codes, state \in ReceivedStates :
        LET validated == _validate_state_parameter(state)
            args == [authorization_code |-> authorization_code,
                     state |-> state,
                     pending_before |-> pending_state]
            fields == [grant_type |-> "authorization_code",
                       code |-> authorization_code,
                       redirect_uri |-> cfg.redirect_uri]
        IN  IF ~validated.ok
            THEN /\ result' = CallOf("exchange_code_for_token", args,
                        Raise("OAuthStateError",
                              "Invalid state parameter - possible CSRF attack"))
                 /\ requests' = << >>
                 /\ pending_state' = validated.pending
                 /\ UNCHANGED <<request_headers, callers, generator, factory>>
                 /\ UNCHANGED <<cfg, encrypted_state, now, origin>>
            ELSE \E response \in Responses :
                   LET reply == _make_oauth_request(response)
                   IN  /\ pending_state' = Pending(validated, reply)
                       /\ requests' = <<[request |-> Request(fields, TRUE),
                                         response |-> response]>>
                       /\ IF Returned(reply)
                          THEN \E iv \in TokenBytes16, salt \in SaltDraws :
                                 /\ encrypted_state' =
                                        Commit(reply.value, iv, salt)
                                 /\ origin' = fields["grant_type"]
                                 /\ result' = CallOf(
                                        "exchange_code_for_token", args,
                                        ExchangedToken(reply.value))
                          ELSE /\ result' = CallOf(
                                        "exchange_code_for_token", args, reply)
                               /\ UNCHANGED <<encrypted_state, origin>>
                       /\ UNCHANGED <<request_headers, callers, generator, factory>>
                       /\ UNCHANGED <<cfg, now>>

\* a query parameter of a redirect URL
Param(k, v) == <<k, v>>

\* urllib.parse.parse_qs of the query: the values of every key in their
\* order, parameters with a blank value dropped
parse_qs(query) ==
    LET kept == SelectSeq(query, LAMBDA p : p[2] # "")
        values(k) == SelectSeq(kept, LAMBDA p : p[1] = k)
    IN  [k \in {kept[i][1] : i \in 1..Len(kept)} |->
            [i \in 1..Len(values(k)) |-> values(k)[i][2]]]

\* a parse that looks for the code before the error
parse_authorization_response_code_first(redirect_url) ==
    LET query_params == parse_qs(redirect_url)
    IN  IF "code" \notin DOMAIN query_params
        THEN Raise("RuntimeError",
                   "Authorization code not found in redirect URL")
        ELSE IF "error" \in DOMAIN query_params
             THEN Raise("OAuthAccessTokenError", "Authorization failed")
        ELSE IF "state" \notin DOMAIN query_params
             THEN Raise("RuntimeError",
                        "State parameter not found in redirect URL")
        ELSE Return([authorization_code |-> query_params["code"][1],
                     state |-> query_params["state"][1]])

\* the pair returned, or the exception raised, for the query of redirect_url
parse_authorization_response(redirect_url) ==
    LET query_params == parse_qs(redirect_url)
    IN  IF "error" \in DOMAIN query_params
        THEN Raise("OAuthAccessTokenError", "Authorization failed")
        ELSE IF "code" \notin DOMAIN query_params
             THEN Raise("RuntimeError",
                        "Authorization code not found in redirect URL")
        ELSE IF "state" \notin DOMAIN query_params
             THEN Raise("RuntimeError",
                        "State parameter not found in redirect URL")
        ELSE Return([authorization_code |-> query_params["code"][1],
                     state |-> query_params["state"][1]])

\* the queries of the redirect URLs a caller may pass
RedirectUrls ==
    {<<Param("code", "CODE"), Param("state", s)>> : s \in ReceivedStates}
    \cup {<<Param("error", "access_denied"), Param("code", "CODE"),
            Param("state", "S1")>>,
          <<Param("error", "access_denied"),
            Param("error_description", "denied")>>,
          <<Param("state", "S1")>>,
          <<Param("code", "CODE")>>,
          << >>,
          <<Param("error", ""), Param("code", "CODE"), Param("state", "S1")>>,
          <<Param("code", ""), Param("state", "S1")>>,
          <<Param("code", "CODE"), Param("state", "")>>,
          <<Param("code", "CODE"), Param("code", "CODE2"),
            Param("state", "S2")>>}

\* a call of parse_authorization_response(redirect_url)
parse_authorization_response_call ==
    /\ \E redirect_url \in RedirectUrls :
          result' = CallOf("parse_authorization_response",
                          [redirect_url |-> redirect_url],
                          parse_authorization_response(redirect_url))
    /\ requests' = << >>
    /\ UNCHANGED <<request_headers, callers, generator, factory>>
    /\ UNCHANGED <<cfg, encrypted_state, pending_state, now, origin>>

\* what a clear_state() call finds: a pending state, a stored token state
Found == [pending_before |-> pending_state, stored_before |-> encrypted_state]

\* a clear_state() that keeps a token that is still valid
clear_state_keeping_valid ==
    LET kept == is_valid(encrypted_state, now) = Return(TRUE)
    IN  /\ encrypted_state' = IF kept THEN encrypted_state ELSE << >>
        /\ pending_state' = None
        /\ origin' = IF kept THEN origin ELSE None
        /\ result' = CallOf("clear_state", Found, Return(None))
        /\ requests' = << >>
        /\ UNCHANGED <<request_headers, callers, generator, factory>>
        /\ UNCHANGED <<cfg, now>>

\* a clear_state() that wipes the pending state only
clear_state_pending_only ==
    /\ pending_state' = None
    /\ result' = CallOf("clear_state", Found, Return(None))
    /\ requests' = << >>
    /\ UNCHANGED <<request_headers, callers, generator, factory>>
    /\ UNCHANGED <<cfg, now, encrypted_state, origin>>

clear_state ==
    /\ encrypted_state' = << >>
    /\ pending_state' = None
    /\ origin' = None
    /\ result' = CallOf("clear_state", Found, Return(None))
    /\ requests' = << >>
    /\ UNCHANGED <<request_headers, callers, generator, factory>>
    /\ UNCHANGED <<cfg, now>>

Next ==
    \/ Tick
    \/ is_valid_call
    \/ access_token
    \/ get_authorization_url
    \/ exchange_code_for_token
    \/ clear_state

Spec == Init /\ [][Next]_vars

(***************************************************************************)
(* The Authorization-Code flow on its own: the authorization URL, the     *)
(* redirect that comes back, the exchange, and the logout.                *)
(***************************************************************************)
FlowNext ==
    \/ get_authorization_url
    \/ parse_authorization_response_call
    \/ exchange_code_for_token
    \/ clear_state

FlowSpec == Init /\ [][FlowNext]_vars

(***************************************************************************)
(* The client (src/src/cruds/core.py, class Client) that holds the manager *)
(* as its auth object: the constructor and the four request methods each   *)
(* run _check_auth() first.  raise_status keeps its default, True.         *)
(***************************************************************************)
\* urllib3.HTTPHeaderDict()
NoHeaders == [h \in {} |-> << >>]

\* "Bearer " + token
BearerHeader(token) == <<"Bearer ", token>>

\* a check that asks for a token whatever is_valid() answered
NeedsToken_always(valid) == TRUE

\* not self.auth.is_valid()
NeedsToken(valid) == ~valid.value

\* what the token endpoint may answer to the client's manager
ClientResponses ==
    {Response(200, Member("access_token", "TOK1") @@ Bearer
                       @@ Member("expires_in", 31)
                       @@ Member("refresh_token", "R1")),
     Response(200, Member("access_token", "TOK2") @@ Bearer
                       @@ Member("expires_in", 31)
                       @@ Member("refresh_token", "R2")),
     Response(200, Member("access_token", "TOK1") @@ Bearer
                       @@ Member("expires_in", 30)),
     Response(200, Bearer @@ Member("expires_in", 60)),
     Response(400, [error_description |-> "Bad Request"])}

\* what the API may answer to the request itself
ApiStatuses == {200, 404}

\* self._process_resp(method, response)
_process_resp(status) ==
    IF 400 <= status /\ status < 600
    THEN Raise("HTTPError", "Error with status code")
    ELSE Return("data")

\* what a client call did: the answer of is_valid(), the number of
\* access_token() calls, the outcome of _check_auth() and the headers the
\* request was sent with
ClientCall(op, valid, calls, check, sent, outcome) ==
    CallOf(op, [is_valid |-> valid, access_token_calls |-> calls,
                check |-> check, sent |-> sent], outcome)

\* the rest of a client method once _check_auth() has run on headers
Proceed(op, valid, calls, check, headers) ==
    IF ~Returned(check)
    THEN /\ result' = ClientCall(op, valid, calls, check, Unset, check)
         /\ UNCHANGED request_headers
    ELSE /\ request_headers' = headers
         /\ IF op = "__init__"
            THEN result' = ClientCall(op, valid, calls, check, Unset,
                                      Return(None))
            ELSE \E status \in ApiStatuses :
                   result' = ClientCall(op, valid, calls, check, headers,
                                        _process_resp(status))

\* a client method: self._check_auth() on headers, then the request.  The
\* answers of is_valid() and access_token() are bound once, as the code
\* holds them.
_check_auth(op, headers) ==
    \E valid \in {is_valid(encrypted_state, now)} :
      LET Authorized(token) ==
              DictSet(headers, "Authorization", BearerHeader(token))
      IN  \/ /\ ~Returned(valid)
             /\ Proceed(op, valid, 0, valid, headers)
             /\ requests' = << >>
             /\ UNCHANGED <<encrypted_state, origin>>
          \/ /\ Returned(valid) /\ ~NeedsToken(valid)
             /\ Proceed(op, valid, 0, Return(None), headers)
             /\ requests' = << >>
             /\ UNCHANGED <<encrypted_state, origin>>
          \/ /\ Returned(valid) /\ NeedsToken(valid)
             /\ \E state \in {_state} :
                  LET refresh_token == DictGet(state, "refresh_token", None)
                      refreshing == Truthy(refresh_token)
                      fields == IF refreshing
                                THEN RefreshFields(refresh_token)
                                ELSE FreshFields
                  IN  IF UseCached(valid)
                      THEN /\ Proceed(op, valid, 1, Return(None),
                                      Authorized(state["access_token"]))
                           /\ requests' = << >>
                           /\ UNCHANGED <<encrypted_state, origin>>
                      ELSE \E response \in ClientResponses :
                             LET reply == _make_oauth_request(response)
                             IN  /\ requests' =
                                      <<[request |->
                                             Request(fields, ~refreshing),
                                         response |-> response]>>
                                 /\ IF Returned(reply)
                                    THEN \E iv \in {Repeat(1, 16)},
                                            salt \in SaltDraws :
                                         \E blob \in {Commit(reply.value,
                                                             iv, salt)} :
                                         \E token \in {TokenOrEmpty(blob)} :
                                           /\ encrypted_state' = blob
                                           /\ origin' =
                                                IF refreshing THEN origin
                                                ELSE fields["grant_type"]
                                           /\ IF Returned(token)
                                              THEN Proceed(op, valid, 1,
                                                     Return(None),
                                                     Authorized(token.value))
                                              ELSE Proceed(op, valid, 1,
                                                     token, headers)
                                    ELSE /\ Proceed(op, valid, 1, reply,
                                                    headers)
                                         /\ UNCHANGED <<encrypted_state,
                                                        origin>>

\* Client(host, auth=manager)
Client__init__ ==
    /\ request_headers = Unset
    /\ _check_auth("__init__", NoHeaders)
    /\ UNCHANGED <<cfg, pending_state, now, callers, generator, factory>>

\* the names of the request methods
Methods == {"create", "read", "update", "delete"}

\* client.create(...), client.read(...), client.update(...),
\* client.delete(...)
request(method) ==
    /\ request_headers # Unset
    /\ _check_auth(method, request_headers)
    /\ UNCHANGED <<cfg, pending_state, now, callers, generator, factory>>

ClientNext ==
    \/ Tick
    \/ Client__init__
    \/ \E method \in Methods : request(method)

\* the responses a manager may have committed before it is handed to a
\* client: one that is valid at first and one that is expired from the start
HeldResponses ==
    {Response(200, Member("access_token", "TOK2") @@ Bearer
                       @@ Member("expires_in", 31)
                       @@ Member("refresh_token", "R2")),
     Response(200, Member("access_token", "TOK1") @@ Bearer
                       @@ Member("expires_in", 30))}

\* the manager when the client is constructed: new, or holding a state that
\* an earlier access_token() committed
ClientInit ==
    /\ cfg \in Configs
    /\ now = 0
    /\ encrypted_state \in
          {<< >>} \cup {Commit(r.body, Repeat(1, 16), salt) :
                            r \in HeldResponses, salt \in SaltDraws}
    /\ origin = IF encrypted_state = << >> THEN None
                ELSE FreshFields["grant_type"]
    /\ pending_state = None
    /\ result = Call("__init__", Return(None))
    /\ requests = << >>
    /\ request_headers = Unset
    /\ callers = [t \in Callers |-> Idle]
    /\ generator = NotCalled
    /\ factory = NoModel

ClientSpec == ClientInit /\ [][ClientNext]_vars

(***************************************************************************)
(* Two threads inside access_token() on one manager, with nothing that     *)
(* serializes them: every read of self._state, the request to the token    *)
(* endpoint, and the assignment to self._state are steps of their own.     *)
(***************************************************************************)
\* what the token endpoint may answer to either caller
RaceResponses ==
    {Response(200, Member("access_token", "TOK1") @@ Bearer
                       @@ Member("expires_in", 31)
                       @@ Member("refresh_token", "R1")),
     Response(200, Member("access_token", "TOK2") @@ Bearer
                       @@ Member("expires_in", 31)
                       @@ Member("refresh_token", "R2")),
     Response(400, [error_description |-> "Bad Request"])}

\* caller t moves on
Becomes(t, caller) == callers' = [callers EXCEPT ![t] = caller]

\* caller t leaves access_token() with an outcome
Leaves(t, outcome) ==
    /\ Becomes(t, [callers[t] EXCEPT !.pc = "done", !.outcome = outcome])
    /\ result' = CallOf("access_token", [caller |-> t], outcome)

\* the writes made so far
Writes == Cardinality({t \in Callers : callers[t].order > 0})

\* an assignment that keeps a state another caller has already written
Assigned_once(blob) == IF Writes > 0 THEN encrypted_state ELSE blob

\* self._encrypted_state = self._encrypt_state(value)
Assigned(blob) == blob

\* if self.is_valid():
race_check(t) ==
    LET valid == is_valid(encrypted_state, now)
    IN  /\ callers[t].pc = "idle"
        /\ IF ~Returned(valid) THEN Leaves(t, valid)
           ELSE /\ Becomes(t, [callers[t] EXCEPT
                                 !.pc = IF valid.value THEN "cached"
                                        ELSE "read"])
                /\ UNCHANGED result
        /\ UNCHANGED <<cfg, encrypted_state, pending_state, now, requests,
                       origin, request_headers, generator, factory>>

\* return self._state["access_token"]
race_cached(t) ==
    /\ callers[t].pc = "cached"
    /\ Leaves(t, IF "access_token" \in DOMAIN _state
                 THEN Return(_state["access_token"])
                 ELSE Raise("KeyError", "access_token"))
    /\ UNCHANGED <<cfg, encrypted_state, pending_state, now, requests,
                   origin, request_headers, generator, factory>>

\* if refresh_token := self._state.get("refresh_token"): and the fields of
\* the request
race_read(t) ==
    LET refresh_token == DictGet(_state, "refresh_token", None)
        refreshing == Truthy(refresh_token)
        fields == IF refreshing THEN RefreshFields(refresh_token)
                  ELSE FreshFields
    IN  /\ callers[t].pc = "read"
        /\ Becomes(t, [callers[t] EXCEPT
                         !.pc = "request",
                         !.request = Request(fields, ~refreshing)])
        /\ UNCHANGED <<cfg, encrypted_state, pending_state, now, result,
                       requests, origin, request_headers, generator, factory>>

\* access_token = self._make_oauth_request(fields, ...)
race_request(t) ==
    /\ callers[t].pc = "request"
    /\ \E response \in RaceResponses :
         LET reply == _make_oauth_request(response)
         IN  /\ requests' = Append(requests,
                                   [caller |-> t,
                                    request |-> callers[t].request,
                                    response |-> response])
             /\ IF Returned(reply)
                THEN /\ Becomes(t, [callers[t] EXCEPT
                                      !.pc = "write",
                                      !.reply = reply.value])
                     /\ UNCHANGED result
                ELSE Leaves(t, reply)
    /\ UNCHANGED <<cfg, encrypted_state, pending_state, now, origin,
                   request_headers, generator, factory>>

\* access_token["created"] = int(time()); self._state = access_token
race_write(t) ==
    /\ callers[t].pc = "write"
    /\ \E iv \in {Repeat(1, 16)}, salt \in SaltDraws :
         LET blob == Commit(callers[t].reply, iv, salt)
             grant == callers[t].request.fields["grant_type"]
         IN  /\ encrypted_state' = Assigned(blob)
             /\ origin' = IF grant = "refresh_token" THEN origin ELSE grant
             /\ Becomes(t, [callers[t] EXCEPT
                              !.pc = "return",
                              !.written = blob,
                              !.order = Writes + 1])
    /\ UNCHANGED <<cfg, pending_state, now, result, requests,
                   request_headers, generator, factory>>

\* return self._state["access_token"] if self.is_valid() else ""
race_return(t) ==
    /\ callers[t].pc = "return"
    /\ Leaves(t, TokenOrEmpty(encrypted_state))
    /\ UNCHANGED <<cfg, encrypted_state, pending_state, now, requests,
                   origin, request_headers, generator, factory>>

RaceNext ==
    \E t \in Callers :
        \/ race_check(t)
        \/ race_cached(t)
        \/ race_read(t)
        \/ race_request(t)
        \/ race_write(t)
        \/ race_return(t)

RaceSpec == Init /\ [][RaceNext]_vars

(***************************************************************************)
(* The Planhat paging generator _get_all_data(uri, params, max_requests)   *)
(* (src/src/cruds/interfaces/planhat/logic.py).  The API holds total       *)
(* records and a read answers the slice the offset and the limit ask for.  *)
(* The generator runs from one next() to its next yield or to its end.     *)
(***************************************************************************)
\* the params a caller passes
PagingParams == {[limit |-> l, offset |-> o] : l \in 1..3, o \in 0..1}

\* the max_requests a caller passes
MaxRequests == 0..3

\* data[offset : offset + limit] of the API's records 1..total
Slice(total, offset, limit) ==
    LET last == IF offset + limit < total THEN offset + limit ELSE total
    IN  [i \in 1..(IF last > offset THEN last - offset ELSE 0) |-> offset + i]

\* self._owner.client.read(uri, updated_params)
read(g) == Slice(g.total, g.updated_params.offset, g.updated_params.limit)

\* the test before the break, passing only beyond max_requests
MaxReached_after(g) == g.requests > g.max_requests /\ g.max_requests # 0

\* if requests >= max_requests and max_requests != 0
MaxReached(g) == g.requests >= g.max_requests /\ g.max_requests # 0

\* a step to the next page that reads the same offset again
Advance_same(g) == g

\* updated_params["offset"] += retrieved, on the object that
\* updated_params names
Advance(g) ==
    LET moved == [g.updated_params EXCEPT !.offset = @ + g.retrieved]
    IN  [g EXCEPT !.updated_params = moved,
                  !.params = IF g.shared THEN moved ELSE @]

\* the body of the loop up to the yield
Page(g) ==
    LET data == read(g)
    IN  [g EXCEPT !.pc = "yielded",
                  !.retrieved = Len(data),
                  !.requests = @ + 1,
                  !.reads = Append(@, g.updated_params),
                  !.pages = Append(@, data)]

\* while retrieved >= updated_params["limit"] or requests == 0
Loop(g) ==
    IF g.retrieved >= g.updated_params.limit \/ g.requests = 0
    THEN Page(g)
    ELSE [g EXCEPT !.pc = "done"]

\* what next() gives: the page yielded, or StopIteration at the end
Given(g) ==
    IF g.pc = "yielded" THEN Return(g.pages[Len(g.pages)])
    ELSE Raise("StopIteration", "")

\* model._get_all_data(uri, params, max_requests): the generator object is
\* created and nothing of its body runs
_get_all_data ==
    /\ generator.pc = "none"
    /\ \E params \in PagingParams, max_requests \in MaxRequests,
          total \in 0..MaxRecords :
         generator' = [pc |-> "created", given |-> params, params |-> params,
                       max_requests |-> max_requests, total |-> total]
    /\ result' = Call("_get_all_data", Return(None))
    /\ UNCHANGED <<cfg, encrypted_state, pending_state, now, requests, origin,
                   request_headers, callers, factory>>

\* the first next(): updated_params = deepcopy(params), the counters, and
\* the loop up to the first yield
first_next ==
    /\ generator.pc = "created"
    /\ LET g == Loop([pc |-> "running",
                      given |-> generator.given,
                      params |-> generator.params,
                      max_requests |-> generator.max_requests,
                      total |-> generator.total,
                      updated_params |-> generator.params,
                      shared |-> FALSE,
                      retrieved |-> 0,
                      requests |-> 0,
                      reads |-> << >>,
                      pages |-> << >>])
       IN  /\ generator' = g
           /\ result' = Call("next", Given(g))
    /\ UNCHANGED <<cfg, encrypted_state, pending_state, now, requests, origin,
                   request_headers, callers, factory>>

\* a later next(): from the yield through the break test, the offset and
\* the loop test to the next yield or to the end
later_next ==
    /\ generator.pc = "yielded"
    /\ LET g == IF MaxReached(generator)
                THEN [generator EXCEPT !.pc = "done"]
                ELSE Loop(Advance(generator))
       IN  /\ generator' = g
           /\ result' = Call("next", Given(g))
    /\ UNCHANGED <<cfg, encrypted_state, pending_state, now, requests, origin,
                   request_headers, callers, factory>>

PagerNext ==
    \/ _get_all_data
    \/ first_next
    \/ later_next

PagerSpec == Init /\ [][PagerNext]_vars

(***************************************************************************)
(* The ModelFactory descriptor (src/src/cruds/interface.py): one           *)
(* descriptor object is a class attribute of the interface class, shared   *)
(* by the instances X and Y of that class; it keeps the model it created   *)
(* in its own attribute self.model.                                        *)
(***************************************************************************)
\* the instances of the interface class
Interfaces == {"X", "Y"}

\* the client of an interface instance
ClientOf(obj) == <<"client", obj>>

\* hasattr(self, "model")
HasModel == "model" \in DOMAIN factory

\* self.model = Model(), Model a new class with _owner |-> obj
WithModel(obj) ==
    [created |-> factory.created + 1,
     model |-> [id |-> factory.created + 1, _owner |-> obj, _uri |-> "uri"]]

\* ModelFactory.__get__(self, obj): what self becomes and what is returned
Got(obj) == IF HasModel THEN factory ELSE WithModel(obj)

\* X.model or Y.model
__get__ ==
    \E obj \in Interfaces :
        /\ HasModel \/ factory.created < MaxModels
        /\ factory' = Got(obj)
        /\ result' = CallOf("__get__", [obj |-> obj], Return(Got(obj).model))
        /\ UNCHANGED <<cfg, encrypted_state, pending_state, now, requests,
                       origin, request_headers, callers, generator>>

\* X.model = value
__set__ ==
    \E obj \in Interfaces, value \in {"check", None} :
        /\ result' = CallOf("__set__", [obj |-> obj, value |-> value],
                            Return(None))
        /\ UNCHANGED <<cfg, encrypted_state, pending_state, now, requests,
                       origin, request_headers, callers, generator, factory>>

\* del X.model
__delete__ ==
    \E obj \in Interfaces :
        /\ IF HasModel
           THEN /\ factory' = [created |-> factory.created]
                /\ result' = CallOf("__delete__", [obj |-> obj],
                                    Return(None))
           ELSE /\ UNCHANGED factory
                /\ result' = CallOf("__delete__", [obj |-> obj],
                                    Raise("AttributeError", "model"))
        /\ UNCHANGED <<cfg, encrypted_state, pending_state, now, requests,
                       origin, request_headers, callers, generator>>

\* X.model.create(data): self._owner.client.create(self._uri, data)
model_create ==
    \E obj \in Interfaces :
        /\ HasModel \/ factory.created < MaxModels
        /\ factory' = Got(obj)
        /\ result' =
             CallOf("create", [obj |-> obj],
                    Return([client |-> ClientOf(Got(obj).model._owner),
                            uri |-> Got(obj).model._uri]))
        /\ UNCHANGED <<cfg, encrypted_state, pending_state, now, requests,
                       origin, request_headers, callers, generator>>

FactoryNext ==
    \/ __get__
    \/ __set__
    \/ __delete__
    \/ model_create

FactorySpec == Init /\ [][FactoryNext]_vars

(***************************************************************************)
(* The token state store on its own: _encrypted_state holds any buffer,   *)
(* written by this manager, by another one, or damaged, and the _state    *)
(* property reads it.                                                      *)
(***************************************************************************)
\* the token states whose buffers are stored
StoredStates ==
    {DictSet(Member("access_token", "TOK1") @@ Bearer
                 @@ Member("expires_in", 31) @@ Member("refresh_token", "R1"),
             "created", 0),
     DictSet(Member("access_token", "TOK2") @@ Bearer
                 @@ Member("expires_in", 60) @@ Member("scope", "api"),
             "created", 1)}

\* plaintexts that json.loads rejects
NotJsonBytes == {<< >>, <<123>>, <<1, 2, 3>>, <<200, 201>>}

\* the key material of a manager with other secrets
Other(self) ==
    [encryption_key |-> IF self.encryption_key # None THEN "other" ELSE None,
     client_secret |-> "XYZ"]

\* a buffer of the format before the salt prefix: the key of old_salt
LegacySeal(self, state_bytes, iv) ==
    _encrypt_with_key(state_bytes, _generate_encryption_key(self, old_salt),
                      iv)

\* an authentic buffer with no ciphertext bytes: iv and HMAC only
EmptySeal(self, iv, salt) ==
    IF self.encryption_key # None
    THEN iv \o Hmac(Sha256(Encode(self.encryption_key)), iv)
    ELSE salt \o iv \o Hmac(_generate_encryption_key(self, salt), iv)

\* the managers' key materials
KeyMaterials == {KeyMaterial(c) : c \in Configs}

\* the buffers that decrypt, under the keys of self, to a JSON object
Intact(self) ==
    {EncryptTable[self][state][iv][salt] :
        state \in StampedStates, iv \in TokenBytes16,
        salt \in TokenBytes16 \cup {Repeat(0, 16)}}
    \cup (IF self.encryption_key = None
          THEN {LegacySeal(self, JsonDumps(state), Repeat(1, 16)) :
                   state \in StoredStates}
          ELSE {})

IntactTable == [k \in KeyMaterials |-> Intact(k)]

\* buffers written whole: token states, plaintexts that are not JSON,
\* token states under the keys of another manager or of the other mode
Written(self) ==
    {_encrypt_state(self, state, Repeat(1, 16), Repeat(2, 16)) :
        state \in StoredStates}
    \cup {LegacySeal(self, JsonDumps(state), Repeat(1, 16)) :
             state \in StoredStates}
    \cup {SealBytes(self, data, Repeat(1, 16), Repeat(2, 16)) :
             data \in NotJsonBytes}
    \cup {LegacySeal(self, data, Repeat(1, 16)) : data \in {<<1, 2, 3>>}}
    \cup {EmptySeal(self, Repeat(1, 16), Repeat(2, 16))}
    \cup {_encrypt_state(Other(self), state, Repeat(1, 16), Repeat(2, 16)) :
             state \in StoredStates}

\* the lengths a buffer is cut to, and the bytes of it that are changed
Cuts(buffer) ==
    {n \in {1, 15, 16, 47, 48, 63, 64, Len(buffer) - 32, Len(buffer) - 16,
            Len(buffer) - 1} : 0 < n /\ n < Len(buffer)}

Flips(buffer) ==
    {1, 17, 33, Len(buffer) - 32, Len(buffer)} \cap (1..Len(buffer))

Damaged(buffer) ==
    {SubSeq(buffer, 1, n) : n \in Cuts(buffer)}
    \cup {SubSeq(buffer, n + 1, Len(buffer)) : n \in Cuts(buffer) \cap {16}}
    \cup {[buffer EXCEPT ![i] = Xor(buffer[i], 1)] : i \in Flips(buffer)}

BufferTable ==
    [k \in KeyMaterials |->
        {<< >>} \cup Written(k) \cup UNION {Damaged(b) : b \in Written(k)}]

\* self._encrypted_state = buffer
assign_encrypted_state ==
    /\ \E buffer \in BufferTable[KeyMaterial(cfg)] :
          encrypted_state' = buffer
    /\ result' = Call("_encrypted_state", Return(None))
    /\ requests' = << >>
    /\ UNCHANGED <<request_headers, callers, generator, factory>>
    /\ UNCHANGED <<cfg, pending_state, now, origin>>

\* the getter of _state: what _decrypt_state returns or raises
Getter(self, buffer) ==
    LET state == _decrypt_state(self, buffer)
    IN  IF "kind" \in DOMAIN state THEN state ELSE Return(state)

read_state ==
    /\ result' = Call("_state", Getter(KeyMaterial(cfg), encrypted_state))
    /\ requests' = << >>
    /\ UNCHANGED <<request_headers, callers, generator, factory>>
    /\ UNCHANGED <<cfg, encrypted_state, pending_state, now, origin>>

\* the setter of _state on a token state
set_state ==
    /\ \E state \in StampedStates, iv \in TokenBytes16, salt \in SaltDraws :
          /\ encrypted_state' = Encrypted(state, iv, salt)
          /\ result' = CallOf("_state.setter",
                              [value |-> state, iv |-> iv, salt |-> salt],
                              Return(None))
    /\ requests' = << >>
    /\ UNCHANGED <<request_headers, callers, generator, factory>>
    /\ UNCHANGED <<cfg, pending_state, now, origin>>

\* _decrypt_with_key on the stored buffer, with the key that _decrypt_state
\* derives for it
decrypt_with_key_call ==
    /\ cfg.encryption_key = None => Len(encrypted_state) >= 16
    /\ LET self == KeyMaterial(cfg)
           n == Len(encrypted_state)
           data == IF self.encryption_key # None THEN encrypted_state
                   ELSE SubSeq(encrypted_state, 17, n)
           key == IF self.encryption_key # None
                  THEN Sha256(Encode(self.encryption_key))
                  ELSE _generate_encryption_key(
                           self, SubSeq(encrypted_state, 1, 16))
       IN  result' = CallOf("_decrypt_with_key", [length |-> Len(data)],
                            _decrypt_with_key(data, key))
    /\ requests' = << >>
    /\ UNCHANGED <<request_headers, callers, generator, factory>>
    /\ UNCHANGED <<cfg, encrypted_state, pending_state, now, origin>>

StoreNext ==
    \/ assign_encrypted_state
    \/ set_state
    \/ read_state
    \/ decrypt_with_key_call

StoreSpec == Init /\ [][StoreNext]_vars

(***************************************************************************)
(* Properties.                                                             *)
(***************************************************************************)
\* a token state holding access_token and token_type "Bearer"
WellFormed(state) ==
    /\ "access_token" \in DOMAIN state
    /\ DictGet(state, "token_type", "") = "Bearer"

\* is_valid() holds, or is false, of the stored state at the current time
Valid == LET v == is_valid(encrypted_state, now) IN Returned(v) /\ v.value

NotValid == LET v == is_valid(encrypted_state, now) IN Returned(v) /\ ~v.value

\* the last call made one request and committed its response
Granted ==
    /\ Len(requests) = 1
    /\ Returned(_make_oauth_request(requests[1].response))

\* the fields and the credentials of the request of the last call
SentFields == requests[1].request.fields

SentAuth == requests[1].request.basic_auth

\* C1: when is_valid() is true, access_token() returns the stored access
\* token, sends no request and leaves the encrypted state and the pending
\* CSRF state unchanged; a second access_token() at the same time after a
\* successful grant with expires_in > 30 or without expires_in sends no
\* request and returns the same token.
C1_CachedTokenNoRequest ==
    [][/\ (result'.op = "access_token" /\ Valid)
          => /\ result'.outcome = Return(_state["access_token"])
             /\ requests' = << >>
             /\ encrypted_state' = encrypted_state
             /\ pending_state' = pending_state
       /\ (/\ result.op = "access_token"
           /\ Returned(result.outcome)
           /\ Granted
           /\ \/ "expires_in" \notin DOMAIN requests[1].response.body
              \/ requests[1].response.body["expires_in"] > 30
           /\ result'.op = "access_token"
           /\ now' = now)
          => /\ requests' = << >>
             /\ result'.outcome = result.outcome]_vars

C1_Witness ==
    /\ result.op = "access_token"
    /\ requests = << >>
    /\ Returned(result.outcome)
    /\ encrypted_state # << >>

\* C2: is_valid() is false on the empty state, true on a well-formed state
\* without expires_in, and otherwise true exactly when
\* created + expires_in > now + 30; with created = now, expires_in 25 and 30
\* are invalid and 60 is valid.
C2_ValidityRule ==
    result.op = "is_valid" =>
        LET state == _state
            expires == "expires_in" \in DOMAIN state
        IN  /\ state = EmptyState => result.outcome = Return(FALSE)
            /\ (WellFormed(state) /\ ~expires)
                  => result.outcome = Return(TRUE)
            /\ (WellFormed(state) /\ expires)
                  => result.outcome =
                        Return(state["created"] + state["expires_in"]
                                   > now + 30)
            /\ (WellFormed(state) /\ expires /\ state["created"] = now)
                  => /\ state["expires_in"] \in {25, 30}
                          => result.outcome = Return(FALSE)
                     /\ state["expires_in"] = 60
                          => result.outcome = Return(TRUE)

C2_Witness ==
    /\ result.op = "is_valid"
    /\ WellFormed(_state)
    /\ "expires_in" \in DOMAIN _state
    /\ _state["created"] + _state["expires_in"] = now + 30
    /\ result.outcome = Return(FALSE)

\* C3: the stored token state is always empty or holds at least
\* access_token and token_type "Bearer".
C3_StateShape == _state = EmptyState \/ WellFormed(_state)

C5_MalformedFaults ==
    result.op = "is_valid" =>
        /\ (_state # EmptyState /\ ~WellFormed(_state))
              => /\ result.outcome.kind = "raise"
                 /\ result.outcome.value = "RuntimeError"
        /\ _state = EmptyState => result.outcome = Return(FALSE)

C5_Witness ==
    /\ result.op = "is_valid"
    /\ _state # EmptyState
    /\ ~WellFormed(_state)
    /\ result.outcome.kind = "raise"

\* C6: when is_valid() is false and the state holds a refresh_token,
\* access_token() sends exactly one request, with exactly the fields
\* grant_type "refresh_token" and refresh_token and without basic auth,
\* whatever username, password or authorization_details are configured.
C6_RefreshRequest ==
    [][(/\ result'.op = "access_token"
        /\ NotValid
        /\ "refresh_token" \in DOMAIN _state)
          => /\ Len(requests') = 1
             /\ requests'[1].request.fields =
                    [grant_type |-> "refresh_token",
                     refresh_token |-> _state["refresh_token"]]
             /\ requests'[1].request.basic_auth = << >>]_vars

C6_Witness ==
    /\ result.op = "access_token"
    /\ Len(requests) = 1
    /\ SentFields["grant_type"] = "refresh_token"
    /\ cfg.username # None
    /\ cfg.password # None
    /\ cfg.authorization_details.type # "None"

\* C7: when the state is empty, or not valid and without refresh_token,
\* access_token() sends exactly one basic-auth request, of grant type
\* "password" with username, password and scope exactly when both a username
\* and a password are configured, and otherwise "client_credentials" with
\* scope.
C7_FreshRequest ==
    [][(/\ result'.op = "access_token"
        /\ NotValid
        /\ "refresh_token" \notin DOMAIN _state)
          => /\ Len(requests') = 1
             /\ requests'[1].request.basic_auth =
                    <<cfg.client_id, cfg.client_secret>>
             /\ LET fields == requests'[1].request.fields
                IN  IF cfg.username # None /\ cfg.password # None
                    THEN /\ fields["grant_type"] = "password"
                         /\ fields["username"] = cfg.username
                         /\ fields["password"] = cfg.password
                         /\ fields["scope"] = cfg.scope
                    ELSE /\ fields["grant_type"] = "client_credentials"
                         /\ fields["scope"] = cfg.scope
                         /\ "username" \notin DOMAIN fields
                         /\ "password" \notin DOMAIN fields]_vars

C7_Witness ==
    /\ result.op = "access_token"
    /\ Len(requests) = 1
    /\ cfg.username # None
    /\ cfg.password = None
    /\ SentFields["grant_type"] = "client_credentials"
    /\ SentAuth = <<cfg.client_id, cfg.client_secret>>

\* a token is stored, is_valid() is false and there is no refresh_token
ExpiredNoRefresh ==
    /\ _state # EmptyState
    /\ NotValid
    /\ "refresh_token" \notin DOMAIN _state

\* C8 as claimed: from ExpiredNoRefresh the next access_token() requests a
\* token with the grant type that produced the expired token, also when that
\* token came from exchange_code_for_token().
C8_OriginalGrantType ==
    [][(result'.op = "access_token" /\ ExpiredNoRefresh)
          => /\ Len(requests') = 1
             /\ requests'[1].request.fields["grant_type"] = origin]_vars

\* C8 as amended: from ExpiredNoRefresh the next access_token() sends a fresh
\* basic-auth request of grant type "password" when a username and a password
\* are configured and "client_credentials" otherwise; this is the grant type
\* that produced the expired token unless that token came from
\* exchange_code_for_token().
C8_FreshGrantType ==
    [][(result'.op = "access_token" /\ ExpiredNoRefresh)
          => /\ Len(requests') = 1
             /\ requests'[1].request.basic_auth =
                    <<cfg.client_id, cfg.client_secret>>
             /\ requests'[1].request.fields["grant_type"] =
                    IF cfg.username # None /\ cfg.password # None
                    THEN "password" ELSE "client_credentials"
             /\ origin # "authorization_code"
                  => requests'[1].request.fields["grant_type"] = origin]_vars

C8_Witness ==
    /\ result.op = "access_token"
    /\ origin = "authorization_code"
    /\ Len(requests) = 1
    /\ SentFields["grant_type"] = "password"
    /\ ExpiredNoRefresh

\* C9: every successful grant replaces the token state by the response plus
\* created; nothing of the previous state survives, so a refresh response
\* without refresh_token leaves the state without one and a new
\* refresh_token replaces the old one.
C9_WholesaleReplace ==
    (result.op \in {"access_token", "exchange_code_for_token"} /\ Granted)
        => _state = DictSet(requests[1].response.body, "created", now)

C9_Witness ==
    /\ result.op = "access_token"
    /\ Granted
    /\ SentFields["grant_type"] = "refresh_token"
    /\ "refresh_token" \notin DOMAIN _state

\* C10: every response status from 400 to 499, both included, makes the
\* grant request fail with OAuthAccessTokenError.
C10_All4xx ==
    (/\ Len(requests) = 1
     /\ requests[1].response.status \in 400..499
     /\ requests[1].response.body # NotJson)
        => /\ result.outcome.kind = "raise"
           /\ result.outcome.value = "OAuthAccessTokenError"

\* the last call made one request, and the status of its response
Answered == Len(requests) = 1

Status == requests[1].response.status

\* C11: every response status from 200 to 299, both included, is a success
\* (never the transport error), and every status outside 200..299 and
\* outside 400..499 fails with the transport error HTTPError.
C11_SuccessRange ==
    Answered =>
        /\ Status \in 200..299
              => ~(/\ result.outcome.kind = "raise"
                   /\ result.outcome.value = "HTTPError")
        /\ Status \notin (200..299) \cup (400..499)
              => /\ result.outcome.kind = "raise"
                 /\ result.outcome.value = "HTTPError"

\* C12: a 4xx response whose body has no error_description or is not JSON
\* fails with OAuthAccessTokenError and the message "Unknown".
C12_UnknownMessage ==
    (/\ Answered
     /\ Status \in 400..499
     /\ \/ requests[1].response.body = NotJson
        \/ "error_description" \notin DOMAIN requests[1].response.body)
        => result.outcome = Raise("OAuthAccessTokenError", "Unknown")

\* C13: when the token endpoint answers the grant request of access_token()
\* or exchange_code_for_token() with a status outside 200..299, the call
\* raises after that one request and the encrypted token state is what it
\* was before the call.
C13_FailureKeepsState ==
    [][(/\ result'.op \in {"access_token", "exchange_code_for_token"}
        /\ Len(requests') >= 1
        /\ requests'[1].response.status \notin 200..299)
          => /\ Len(requests') = 1
             /\ result'.outcome.kind = "raise"
             /\ result'.outcome.value \in
                    {"OAuthAccessTokenError", "HTTPError", "JSONDecodeError"}
             /\ encrypted_state' = encrypted_state]_vars

C13_Witness ==
    /\ result.op = "exchange_code_for_token"
    /\ Answered
    /\ Status = 500
    /\ result.outcome.kind = "raise"
    /\ _state # EmptyState

\* _validate_state_parameter(s) would return True
Accepts(s) == _validate_state_parameter(s).ok

\* the CSRF error of exchange_code_for_token()
CSRFError ==
    Raise("OAuthStateError", "Invalid state parameter - possible CSRF attack")

\* C14: an exchange_code_for_token() presenting the pending state passes the
\* validation, which clears the pending state, so that no value validates
\* afterwards; an exchange_code_for_token() that directly follows one that
\* passed the validation raises OAuthStateError and sends no request.
C14_SingleUse ==
    [][result'.op = "exchange_code_for_token"
          => /\ (/\ Truthy(pending_state)
                 /\ result'.args.state = pending_state)
                   => /\ Len(requests') = 1
                      /\ pending_state' = None
                      /\ \A s \in ReceivedStates : ~Accepts(s)'
             /\ (/\ result.op = "exchange_code_for_token"
                 /\ Len(requests) = 1)
                   => /\ result'.outcome = CSRFError
                      /\ requests' = << >>]_vars

C14_Witness ==
    /\ result.op = "exchange_code_for_token"
    /\ result.outcome = CSRFError
    /\ result.args.state \in TokenUrlsafe
    /\ result.args.pending_before = None
    /\ origin = "authorization_code"
    /\ ~Accepts(result.args.state)

\* C15: an exchange_code_for_token() presenting a value different from the
\* pending state fails the validation and leaves the pending state as it
\* was, so that the pending value still validates afterwards.
C15_MismatchKeepsPending ==
    [][(/\ result'.op = "exchange_code_for_token"
        /\ Truthy(pending_state)
        /\ result'.args.state # pending_state)
          => /\ result'.outcome = CSRFError
             /\ pending_state' = pending_state
             /\ \A s \in ReceivedStates :
                    s = pending_state => Accepts(s)']_vars

C15_Witness ==
    /\ result.op = "exchange_code_for_token"
    /\ result.outcome = CSRFError
    /\ result.args.state = "X"
    /\ result.args.pending_before = "S1"
    /\ pending_state = "S1"
    /\ Accepts("S1")

\* C16: exchange_code_for_token() with no pending state, or with a state
\* different from the pending one, raises OAuthStateError, sends no request
\* and leaves the encrypted token state and the pending state unchanged.
C16_RejectedExchange ==
    [][(/\ result'.op = "exchange_code_for_token"
        /\ \/ ~Truthy(pending_state)
           \/ result'.args.state # pending_state)
          => /\ result'.outcome = CSRFError
             /\ requests' = << >>
             /\ encrypted_state' = encrypted_state
             /\ pending_state' = pending_state]_vars

C16_Witness ==
    /\ result.op = "exchange_code_for_token"
    /\ result.outcome = CSRFError
    /\ result.args.pending_before = None
    /\ requests = << >>
    /\ _state # EmptyState

\* C17: a get_authorization_url() that returns leaves exactly one pending
\* state, the one it issued (the state of the returned URL unless
\* additional_params replaces it): that value validates and no other does,
\* the state issued by an earlier get_authorization_url() included.
C17_SinglePending ==
    [][(/\ result'.op = "get_authorization_url"
        /\ Returned(result'.outcome))
          => /\ pending_state' \in TokenUrlsafe
             /\ "state" \notin DOMAIN result'.args.additional_params
                  => result'.outcome.value.query["state"] = pending_state'
             /\ \A s \in ReceivedStates :
                    Accepts(s)' <=> s = pending_state']_vars

C17_Witness ==
    /\ result.op = "get_authorization_url"
    /\ Returned(result.outcome)
    /\ result.args.pending_before = "S1"
    /\ result.outcome.value.query["state"] = "S2"
    /\ pending_state = "S2"
    /\ ~Accepts("S1")
    /\ Accepts("S2")

C19_ClearState ==
    [][result'.op = "clear_state"
          => /\ encrypted_state' = << >>
             /\ _state' = EmptyState
             /\ pending_state' = None
             /\ requests' = << >>
             /\ result'.outcome = Return(None)
             /\ result.op = "clear_state"
                  => UNCHANGED <<cfg, encrypted_state, pending_state, now,
                                 requests, origin>>]_vars

C19_Witness ==
    /\ result.op = "clear_state"
    /\ result.args.pending_before \in TokenUrlsafe
    /\ result.args.stored_before # << >>
    /\ encrypted_state = << >>
    /\ pending_state = None
    /\ requests = << >>

\* C20: reading the token state never raises; the empty buffer reads as the
\* empty state, and so does every non-empty buffer that is not the
\* encryption of a JSON object under a key of the manager (cut short,
\* changed in a byte, written under other keys, or holding a plaintext that
\* is not JSON), with a fixed key and with a salted key.
C20_ReadNeverRaises ==
    result.op = "_state"
        => /\ Returned(result.outcome)
           /\ encrypted_state = << >> => result.outcome.value = EmptyState
           /\ encrypted_state \notin IntactTable[KeyMaterial(cfg)]
                 => result.outcome.value = EmptyState

C20_Witness ==
    /\ result.op = "_state"
    /\ cfg.encryption_key = None
    /\ Len(encrypted_state) >= 64
    /\ encrypted_state \notin IntactTable[KeyMaterial(cfg)]
    /\ result.outcome = Return(EmptyState)

\* the key material of the manager
Self == KeyMaterial(cfg)

\* C21: a token state written through the setter of _state reads back
\* through the getter as the same state, with a fixed key and with a salted
\* key, whatever iv and salt the encryption drew.
C21_RoundTrip ==
    result.op = "_state.setter"
        => /\ result.args.value # EmptyState
           /\ Getter(Self, encrypted_state) = Return(result.args.value)

C21_Witness ==
    /\ result.op = "_state.setter"
    /\ cfg.encryption_key = None
    /\ "refresh_token" \in DOMAIN result.args.value
    /\ Getter(Self, encrypted_state) = Return(result.args.value)

\* C22: with a salted key the setter stores the salt it drew followed by
\* the ciphertext, so that a set of the same state that draws another salt
\* stores a different buffer, which reads back as that state too.
C22_SaltFreshness ==
    (result.op = "_state.setter" /\ cfg.encryption_key = None)
        => /\ SubSeq(encrypted_state, 1, 16) = result.args.salt
           /\ Len(encrypted_state) >= 16 + 48
           /\ \A iv \in TokenBytes16, salt \in TokenBytes16 :
                 salt # result.args.salt
                   => LET again == Encrypted(result.args.value, iv, salt)
                      IN  /\ again # encrypted_state
                          /\ Getter(Self, again) = Return(result.args.value)

C22_Witness ==
    /\ result.op = "_state.setter"
    /\ cfg.encryption_key = None
    /\ result.args.salt = Repeat(2, 16)
    /\ SubSeq(encrypted_state, 1, 16) = Repeat(2, 16)
    /\ Encrypted(result.args.value, result.args.iv, Repeat(1, 16))
           # encrypted_state

\* the legacy attempt of _decrypt_state on the stored buffer
LegacyAttempt ==
    LoadDecrypted(_decrypt_with_key(
        encrypted_state, _generate_encryption_key(Self, old_salt)))

\* C23: a manager with a salted key reads a buffer encrypted under the key
\* of the constant legacy salt, without salt prefix, as the state that was
\* encrypted; whenever the legacy attempt succeeds its result is the state
\* read, the salt-prefixed layout being tried only after it failed.
C23_LegacyReadable ==
    (result.op = "_state" /\ cfg.encryption_key = None
        /\ encrypted_state # << >>)
        => /\ Returned(LegacyAttempt)
                 => result.outcome = Return(LegacyAttempt.value)
           /\ \A state \in StoredStates :
                 encrypted_state =
                     LegacySeal(Self, JsonDumps(state), Repeat(1, 16))
                   => result.outcome = Return(state)

C23_Witness ==
    /\ result.op = "_state"
    /\ cfg.encryption_key = None
    /\ \E state \in StoredStates :
          /\ encrypted_state =
                 LegacySeal(Self, JsonDumps(state), Repeat(1, 16))
          /\ result.outcome = Return(state)

\* C24: _decrypt_with_key returns the plaintext or raises ValueError, the
\* integrity error, for every buffer, one of exactly 48 bytes included.
C24_IntegrityOnly ==
    result.op = "_decrypt_with_key"
        => \/ Returned(result.outcome)
           \/ result.outcome.value = "ValueError"

\* the keys that occur in a query, and those that occur with a value
Keys(query) == {query[i][1] : i \in 1..Len(query)}

FilledKeys(query) == {query[i][1] : i \in {j \in 1..Len(query) : query[j][2] # ""}}

\* C25 as claimed: parse_authorization_response raises the authorization
\* error when the query has an error parameter, else the configuration
\* error when it has no code, else the configuration error when it has no
\* state, else returns the code and the state.
C25_ParseOrder ==
    result.op = "parse_authorization_response"
        => LET query == result.args.redirect_url
           IN  IF "error" \in Keys(query)
               THEN result.outcome.kind = "raise"
                    /\ result.outcome.value = "OAuthAccessTokenError"
               ELSE IF "code" \notin Keys(query) \/ "state" \notin Keys(query)
                    THEN result.outcome.kind = "raise"
                         /\ result.outcome.value = "RuntimeError"
               ELSE Returned(result.outcome)

\* C25 as amended: a parameter counts only when its value is not blank.
\* parse_authorization_response raises OAuthAccessTokenError when the query
\* has an error parameter with a value, else RuntimeError when it has no
\* code with a value, else RuntimeError when it has no state with a value,
\* else returns the first code and the first state; it does not compare the
\* state with the pending state and changes neither the pending state nor
\* the token state, and sends no request.
C25_ParseFilledOrder ==
    [][result'.op = "parse_authorization_response"
          => LET query == result'.args.redirect_url
                 first(k) == query[CHOOSE i \in 1..Len(query) :
                                     /\ query[i][1] = k
                                     /\ query[i][2] # ""
                                     /\ \A j \in 1..(i - 1) :
                                           \/ query[j][1] # k
                                           \/ query[j][2] = ""][2]
             IN  /\ result'.outcome =
                        IF "error" \in FilledKeys(query)
                        THEN Raise("OAuthAccessTokenError",
                                   "Authorization failed")
                        ELSE IF "code" \notin FilledKeys(query)
                             THEN Raise("RuntimeError",
                                        "Authorization code not found in redirect URL")
                        ELSE IF "state" \notin FilledKeys(query)
                             THEN Raise("RuntimeError",
                                        "State parameter not found in redirect URL")
                        ELSE Return([authorization_code |-> first("code"),
                                     state |-> first("state")])
                 /\ pending_state' = pending_state
                 /\ encrypted_state' = encrypted_state
                 /\ requests' = << >>]_vars

C25_Witness ==
    /\ result.op = "parse_authorization_response"
    /\ Returned(result.outcome)
    /\ result.outcome.value.state = "X"
    /\ pending_state = "S1"
    /\ _state # EmptyState

C27_DistinctKinds ==
    LET configuration ==
            parse_authorization_response(<<Param("state", "S1")>>).value
        authorization ==
            parse_authorization_response(
                <<Param("error", "access_denied")>>).value
        failed == result.outcome.kind = "raise"
        kind == result.outcome.value
    IN  /\ authorization # configuration
        /\ (failed /\ result.op = "is_valid")
              => kind \notin {configuration, authorization}
        /\ (failed /\ Answered)
              => kind \notin {configuration, authorization}
        /\ (failed /\ result.op = "exchange_code_for_token"
               /\ requests = << >>)
              => kind \notin {configuration, authorization}
        /\ (failed /\ result.op = "get_authorization_url")
              => kind = configuration

\* the authorization_details member that dictionary d must have
Attached(d) ==
    IF cfg.authorization_details.type = "None"
    THEN "authorization_details" \notin DOMAIN d
    ELSE /\ "authorization_details" \in DOMAIN d
         /\ d["authorization_details"] =
                IF cfg.authorization_details.type = "list"
                THEN [json |-> cfg.authorization_details.items]
                ELSE cfg.authorization_details.text

\* C30: the configured authorization_details are a member of the fields of
\* every client_credentials and password request and of the query of the
\* authorization URL, serialized when a list (the empty list included) and
\* as they are when a string; refresh_token and authorization_code
\* requests never have the member.
C30_AuthorizationDetails ==
    /\ (result.op \in {"access_token", "exchange_code_for_token"}
           /\ Answered)
          => IF SentFields["grant_type"] \in {"client_credentials", "password"}
             THEN Attached(SentFields)
             ELSE "authorization_details" \notin DOMAIN SentFields
    /\ (result.op = "get_authorization_url" /\ Returned(result.outcome))
          => Attached(result.outcome.value.query)

C30_Witness ==
    /\ result.op = "access_token"
    /\ Answered
    /\ cfg.authorization_details = AsList(<< >>)
    /\ SentFields["grant_type"] = "client_credentials"
    /\ SentFields["authorization_details"] = [json |-> << >>]


\* a step of the client: its constructor or one of its request methods
ClientOps == Methods \cup {"__init__"}

\* C28: the client consults its auth object at construction and before
\* every create, read, update and delete request.  When is_valid() answers
\* false it calls access_token() once and, unless that call raises, sets the
\* Authorization header to "Bearer " + the token access_token() returned;
\* when is_valid() answers true it calls access_token() zero times, sends no
\* token request, and leaves the stored state and the request headers as
\* they were.  A request that goes out carries the headers so decided.
C28_CheckAuth ==
    [][result'.op \in ClientOps /\ "args" \in DOMAIN result' =>
         LET valid == is_valid(encrypted_state, now)
             before == IF result'.op = "__init__" THEN NoHeaders
                       ELSE request_headers
             done == result'.args
             token == TokenOrEmpty(encrypted_state')
         IN  /\ done.is_valid = valid
             /\ Returned(valid) /\ valid.value =>
                  /\ done.access_token_calls = 0
                  /\ requests' = << >>
                  /\ encrypted_state' = encrypted_state
                  /\ request_headers' = before
             /\ Returned(valid) /\ ~valid.value =>
                  /\ done.access_token_calls = 1
                  /\ Len(requests') = 1
                  /\ Returned(done.check) =>
                       /\ Returned(token)
                       /\ request_headers' =
                            DictSet(before, "Authorization",
                                    BearerHeader(token.value))
             /\ result'.op \in Methods /\ Returned(done.check) =>
                  done.sent = request_headers']_vars

\* a request method found the token it set earlier still valid: no call of
\* access_token(), and the request went out with the header it already had
C28_Witness ==
    /\ result.op \in Methods
    /\ "args" \in DOMAIN result
    /\ result.args.is_valid = Return(TRUE)
    /\ result.args.access_token_calls = 0
    /\ requests = << >>
    /\ request_headers # Unset
    /\ "Authorization" \in DOMAIN request_headers
    /\ request_headers["Authorization"] = BearerHeader("TOK2")
    /\ result.args.sent = request_headers


\* the callers that have sent their request to the token endpoint
Requested ==
    {t \in Callers :
        \E i \in 1..Len(requests) :
            "caller" \in DOMAIN requests[i] /\ requests[i].caller = t}

\* the callers that have assigned self._state
Writers == {t \in Callers : callers[t].order > 0}

\* the caller that assigned self._state last
LastWriter ==
    CHOOSE t \in Writers : \A u \in Writers : callers[u].order <= callers[t].order

\* C29: access_token() is not atomic.  Every caller that found the state
\* not valid sends a token request of its own, whatever the other caller is
\* doing (nothing shares or suppresses it), and every assignment replaces
\* the stored state whole, so that the stored state is always the one
\* written last: the response of the last writer, stamped.
C29_LastWriteWins ==
    /\ \A t \in Callers :
         callers[t].pc \in {"write", "return"} \/ callers[t].order > 0
            => t \in Requested
    /\ Len(requests) = Cardinality(Requested)
    /\ Writers = {} => encrypted_state = << >>
    /\ Writers # {} =>
         /\ encrypted_state = callers[LastWriter].written
         /\ _state = DictSet(callers[LastWriter].reply, "created", now)

\* both callers found the state not valid, both sent the same token request
\* (a duplicate), caller 1 asked first and wrote last, and what is stored
\* in the end is caller 1's response, not caller 2's
C29_Witness ==
    /\ \A t \in Callers : callers[t].pc = "done"
    /\ Len(requests) = 2
    /\ requests[1].caller = 1 /\ requests[2].caller = 2
    /\ requests[1].request = requests[2].request
    /\ callers[2].order = 1 /\ callers[1].order = 2
    /\ callers[1].reply # callers[2].reply
    /\ _state = DictSet(callers[1].reply, "created", now)
    /\ _state # DictSet(callers[2].reply, "created", now)


\* C31: every state committed by access_token() or
\* exchange_code_for_token() carries created equal to the clock at receipt,
\* whatever created the server put in its response; so every stored state
\* has a created field, and is_valid() on a well-formed stored state with
\* expires_in answers by the expiry rule and never fails for a missing
\* created.
C31_CreatedAtReceipt ==
    /\ (result.op \in {"access_token", "exchange_code_for_token"} /\ Granted)
          => /\ "created" \in DOMAIN _state
             /\ _state["created"] = now
    /\ encrypted_state # << >>
          => /\ "created" \in DOMAIN _state
             /\ _state["created"] \in 0..now
    /\ (WellFormed(_state) /\ "expires_in" \in DOMAIN _state)
          => LET v == is_valid(encrypted_state, now)
             IN  /\ Returned(v)
                 /\ v.value = (_state["created"] + _state["expires_in"]
                                 > now + TOKEN_REFRESH_LEAD_TIME)

\* a grant whose response carried created = 9 was committed at time 1
C31_Witness ==
    /\ result.op \in {"access_token", "exchange_code_for_token"}
    /\ Granted
    /\ "created" \in DOMAIN requests[1].response.body
    /\ requests[1].response.body["created"] = 9
    /\ now = 1
    /\ _state["created"] = 1
    /\ "expires_in" \in DOMAIN _state
    /\ Valid


\* C32: exchange_code_for_token() consumes the pending state before it
\* contacts the token endpoint.  When the presented state matches and the
\* token request then fails, the pending state is cleared, the encrypted
\* token state is unchanged and the presented state no longer validates;
\* with no pending state every exchange_code_for_token() raises
\* OAuthStateError without a request, and only get_authorization_url()
\* makes a state pending again.
C32_ConsumedBeforeRequest ==
    [][/\ (/\ result'.op = "exchange_code_for_token"
           /\ Truthy(pending_state)
           /\ result'.args.state = pending_state
           /\ result'.outcome.kind = "raise")
             => /\ Len(requests') = 1
                /\ pending_state' = None
                /\ encrypted_state' = encrypted_state
                /\ \A s \in ReceivedStates :
                     s = result'.args.state => ~Accepts(s)'
       /\ (/\ result'.op = "exchange_code_for_token"
           /\ pending_state = None)
             => /\ result'.outcome = CSRFError
                /\ requests' = << >>
                /\ pending_state' = None
       /\ (pending_state = None /\ pending_state' # None)
             => result'.op = "get_authorization_url"]_vars

\* the presented state matched, the token endpoint answered 400, and the
\* state that matched is no longer accepted
C32_Witness ==
    /\ result.op = "exchange_code_for_token"
    /\ result.args.pending_before = "S1"
    /\ result.args.state = "S1"
    /\ Answered
    /\ Status = 400
    /\ result.outcome.kind = "raise"
    /\ result.outcome.value = "OAuthAccessTokenError"
    /\ pending_state = None
    /\ ~Accepts("S1")


\* the stored state is not valid and holds the refresh token r
Refreshable(r) ==
    /\ NotValid
    /\ Truthy(r)
    /\ DictGet(_state, "refresh_token", None) = r

\* a step on which a failed refresh does not fall back to a fresh grant:
\* the rejected refresh_token request leaves the state as it was, a state
\* that is not valid and holds a refresh_token makes access_token() send
\* exactly one refresh_token request with it, and such a state is replaced
\* only by clear_state() or by a successful grant of one of the operations
\* in ops
NoFallbackUntil(ops) ==
    LET r == DictGet(_state, "refresh_token", None)
        refreshable == Refreshable(r)
    IN  /\ (/\ result'.op = "access_token"
            /\ Len(requests') = 1
            /\ requests'[1].request.fields["grant_type"] = "refresh_token"
            /\ ~Returned(_make_oauth_request(requests'[1].response)))
              => /\ result'.outcome.kind = "raise"
                 /\ encrypted_state' = encrypted_state
                 /\ refreshable
                 /\ requests'[1].request.fields["refresh_token"] = r
        /\ (result'.op = "access_token" /\ refreshable)
              => /\ Len(requests') = 1
                 /\ requests'[1].request.fields =
                      [grant_type |-> "refresh_token", refresh_token |-> r]
                 /\ requests'[1].request.basic_auth = << >>
        /\ (refreshable /\ encrypted_state' = encrypted_state)
              => NotValid'
        /\ (refreshable /\ encrypted_state' # encrypted_state)
              => \/ result'.op = "clear_state"
                 \/ result'.op \in ops /\ Granted'

\* C33 as stated: a failed refresh never falls back to a fresh grant, and
\* the state keeps its expired token and its refresh_token, so that every
\* later access_token() sends a refresh_token request with it, until
\* clear_state() is called or a refresh succeeds.
C33_UntilClearOrRefresh == [][NoFallbackUntil({"access_token"})]_vars

\* C33, amended: a failed refresh never falls back to a fresh grant, and
\* the state keeps its expired token and its refresh_token, so that every
\* later access_token() sends a refresh_token request with it, until
\* clear_state() is called, a refresh succeeds, or
\* exchange_code_for_token() commits a new state.
C33_NoFallback ==
    [][NoFallbackUntil({"access_token", "exchange_code_for_token"})]_vars

\* a refresh with R1 was rejected with status 400 by a manager configured
\* for the password grant: the state still holds R1 and is still not valid
C33_Witness ==
    /\ result.op = "access_token"
    /\ Answered
    /\ Status = 400
    /\ SentFields = [grant_type |-> "refresh_token", refresh_token |-> "R1"]
    /\ result.outcome.kind = "raise"
    /\ Refreshable("R1")
    /\ cfg.username # None
    /\ cfg.password # None


\* C34: the state parameter of the URL returned by
\* get_authorization_url(additional_params) equals the pending state stored
\* by that call, for every additional_params, so that the state echoed back
\* from that URL validates.
C34_UrlStateIsPending ==
    (result.op = "get_authorization_url" /\ Returned(result.outcome))
        => /\ result.outcome.value.query["state"] = pending_state
           /\ Accepts(result.outcome.value.query["state"])


\* C35: every create, read, update or delete request sent by a client that
\* holds the manager carries the header Authorization "Bearer <t>", t the
\* current access token of the manager, whatever state the manager was in
\* when the client was constructed.
C35_RequestsAuthorized ==
    (/\ result.op \in Methods
     /\ "args" \in DOMAIN result
     /\ result.args.sent # Unset
     /\ Valid)
        => /\ "Authorization" \in DOMAIN result.args.sent
           /\ result.args.sent["Authorization"] =
                  BearerHeader(_state["access_token"])


\* the generator has started
Started == generator.pc \in {"yielded", "done"}

\* the records returned by the first k pages
RECURSIVE Returned_records(_, _)
Returned_records(pages, k) ==
    IF k = 0 THEN 0 ELSE Len(pages[k]) + Returned_records(pages, k - 1)

\* C37: the k-th read of _get_all_data asks for the initial offset plus the
\* number of records the previous k-1 reads returned, with the caller's
\* limit; every page read is yielded; no read follows a page with fewer
\* records than limit; and the caller's params are never modified.  With 3
\* records, limit 1 and no max_requests it makes 4 reads, with limit 2 it
\* makes 2.
C37_Paging ==
    Started =>
        LET g == generator
            n == Len(g.reads)
        IN  /\ g.params = g.given
            /\ n = g.requests
            /\ Len(g.pages) = n
            /\ \A k \in 1..n :
                  /\ g.reads[k].limit = g.given.limit
                  /\ g.reads[k].offset =
                         g.given.offset + Returned_records(g.pages, k - 1)
                  /\ g.pages[k] =
                         Slice(g.total, g.reads[k].offset, g.given.limit)
                  /\ k < n => Len(g.pages[k]) >= g.given.limit
            /\ (/\ g.pc = "done"
                /\ g.total = 3
                /\ g.given.offset = 0
                /\ g.max_requests = 0)
                  => /\ g.given.limit = 1 => n = 4
                     /\ g.given.limit = 2 => n = 2

\* 3 records read one at a time: four reads, the last one empty
C37_Witness ==
    /\ generator.pc = "done"
    /\ generator.total = 3
    /\ generator.given = [limit |-> 1, offset |-> 0]
    /\ generator.max_requests = 0
    /\ Len(generator.reads) = 4
    /\ generator.reads[4].offset = 3
    /\ generator.pages[4] = << >>
    /\ generator.params = [limit |-> 1, offset |-> 0]

\* C38: with max_requests > 0 the generator makes at most max_requests
\* reads, however many full pages the API keeps returning; with
\* max_requests = 0 it goes on while every page is full, so that it ends
\* only after a page with fewer records than limit.
C38_MaxRequests ==
    Started =>
        LET g == generator
            n == Len(g.reads)
        IN  /\ g.max_requests > 0 => n <= g.max_requests
            /\ (g.max_requests > 0 /\ g.pc = "done")
                  => \/ n = g.max_requests
                     \/ Len(g.pages[n]) < g.given.limit
            /\ (g.max_requests = 0 /\ g.pc = "done")
                  => /\ Len(g.pages[n]) < g.given.limit
                     /\ \A k \in 1..(n - 1) :
                            Len(g.pages[k]) = g.given.limit

\* the API had two more full pages to give when max_requests = 2 ended it
C38_Witness ==
    /\ generator.pc = "done"
    /\ generator.max_requests = 2
    /\ generator.total = 4
    /\ generator.given = [limit |-> 1, offset |-> 0]
    /\ Len(generator.reads) = 2
    /\ Len(generator.pages[2]) = 1


\* C36: after clear_state() is_valid() is false and no state validates, the
\* state issued before included; the access_token() that follows sends one
\* basic-auth request for a fresh grant (client_credentials or password,
\* never refresh_token), whatever refresh_token the state held before; and
\* the exchange_code_for_token() that follows is rejected without a request.
C36_AfterClearState ==
    [][/\ result'.op = "clear_state"
            => /\ NotValid'
               /\ \A s \in ReceivedStates : ~Accepts(s)'
       /\ (result.op = "clear_state" /\ result'.op = "access_token")
            => /\ Len(requests') = 1
               /\ requests'[1].request.fields["grant_type"] \in
                      {"client_credentials", "password"}
               /\ "refresh_token" \notin DOMAIN requests'[1].request.fields
               /\ requests'[1].request.basic_auth =
                      <<cfg.client_id, cfg.client_secret>>
       /\ (result.op = "clear_state"
           /\ result'.op = "exchange_code_for_token")
            => /\ result'.outcome = CSRFError
               /\ requests' = << >>]_vars

\* clear_state() found a state with the refresh_token R1 and a pending
\* state, and left a manager that is not valid and accepts no state
C36_Witness ==
    /\ result.op = "clear_state"
    /\ result.args.pending_before = "S1"
    /\ result.args.stored_before # << >>
    /\ DictGet(Decrypted(result.args.stored_before), "refresh_token", None)
           = "R1"
    /\ NotValid
    /\ ~Accepts("S1")


\* C39: a model reached through the descriptor on the interface instance X
\* has X as its owner and sends its requests through X's client, for every
\* instance and every order in which the instances first reach the model.
C39_OwnerIsAccessor ==
    /\ (result.op = "__get__" /\ result.args.obj \in Interfaces)
          => result.outcome.value._owner = result.args.obj
    /\ result.op = "create"
          => /\ Returned(result.outcome)
             /\ result.outcome.value.client = ClientOf(result.args.obj)

====
